---- MODULE Spec2Model ----
(***************************************************************************)
(* Model of the aggregation and notification core of solana-monitor-bot   *)
(* (src/app.py, src/utils.py): the webhook handler solana_webhook, the    *)
(* flush-attempt try_send_for_token, the summarizer format_event_summary  *)
(* and the background sweeper_loop, sharing token_events, last_notify and *)
(* one global lock.                                                       *)
(*                                                                         *)
(* Threads are request handlers (one per in-flight request) and the       *)
(* sweeper thread.  Each thread advances by steps that follow the order   *)
(* of the statements of its function; a step that needs the lock waits    *)
(* until the lock is free.  Time is the value returned by time.time(),    *)
(* in whole seconds, and advances between steps.                          *)
(***************************************************************************)
EXTENDS Integers, Sequences, FiniteSets, TLC

(***************************************************************************)
(* Program constants                                                       *)
(***************************************************************************)
WINDOW == 60

COOLDOWN == 300

SWEEPER_INTERVAL == 15

\* the amount threshold of the filter (from_amount < 5)
MIN_AMOUNT == 5

\* number of names the summarizer unpacks an event tuple into
UNPACK_ARITY == 10

SOL_MINT == "SOL"

OTHER_MINT == "USDC"

None == "None"

(***************************************************************************)
(* Bounds of the model                                                     *)
(***************************************************************************)
\* value of time.time() when the process starts (seconds since the epoch)
StartTime == 1000

\* events buffered or on their way to the buffer, concurrent model
MaxEvents == 2

\* the same bound in the reference scenario (three events in one bucket)
MaxScenarioEvents == 3

Mints == {"A", "B"}

Handlers == {"h1", "h2"}

Sweeper == "sw"

Threads == Handlers \cup {Sweeper}

NoThread == "free"

\* instants (offsets from StartTime) the clock takes in the concurrent model
GridInstants == {0, 60, 75}

\* instants of the sweeper's grid, and one off the grid
TimelyInstants == {0, 10, 15, 30, 45, 60, 75}

\* instants of the reference scenario, and one that is a window before another
ScenarioInstants == {0, 1, 10, 30, 31, 61, 65, 66, 365}

VARIABLES
    now,           \* time.time()
    token_events,  \* mint -> list of event tuples
    keys,          \* keys of token_events, in insertion order
    last_notify,   \* mint -> timestamp of the last notification (default 0)
    lock,          \* the thread holding the global lock, or NoThread
    sink,          \* messages handed to Telegram, in order
    pc,            \* where each thread is
    req,           \* handler: the accepted swap being processed
    ev,            \* handler: the event tuple built at line 214
    resp,          \* handler: the response to its last request
    arg,           \* try_send_for_token: mint
    tnow,          \* try_send_for_token: now (line 123)
    events,        \* try_send_for_token: events (line 125)
    sent,          \* try_send_for_token: sent (line 146)
    mints,         \* sweeper: tokens of the snapshot still to attempt
    wake,          \* sweeper: end of the current sleep
    failed,        \* history: a sweeper tick has ended in the except clause
    flushed        \* history: mint -> now of the latest flush-attempt that
                   \* passed every gate (0: none yet)

vars == <<now, token_events, keys, last_notify, lock, sink, pc, req, ev, resp,
          arg, tnow, events, sent, mints, wake, failed, flushed>>

store == <<token_events, keys, last_notify>>

locals == <<arg, tnow, events, sent>>


(***************************************************************************)
(* Pure helpers                                                            *)
(***************************************************************************)
\* one event tuple (lines 214-226), fields numbered as TLA+ numbers them:
\* 1 timestamp, 2 buyer, 3 sol, 4 to_amount, 5 signature, 6 image_url,
\* 7 axiom_url, 8 tweet_text, 9 tweet_link, 10 mint, 11 symbol
MakeEvent(ts, sol, mint, meta, tweet) ==
    <<ts, "buyer", sol, 0, "sig", meta[2], "axiom", tweet[1], tweet[2], mint, meta[1]>>

\* float(from_amount) with the fallback of lines 200-203
ToFloat(raw) == IF raw.num THEN raw.v ELSE 0

\* the filter with its two tests joined by "and"
Rejected_Both(from_mint, from_amount) ==
    from_mint # SOL_MINT /\ from_amount < MIN_AMOUNT

\* the filter of line 205: TRUE when the swap is ignored
Rejected(from_mint, from_amount) ==
    from_mint # SOL_MINT \/ from_amount < MIN_AMOUNT

\* list.sort(key=lambda e: e[0]) (line 231): a stable sort by timestamp
RECURSIVE InsertByTs(_, _)
InsertByTs(e, s) ==
    IF s = <<>> THEN <<e>>
    ELSE IF e[1] < Head(s)[1] THEN <<e>> \o s
    ELSE <<Head(s)>> \o InsertByTs(e, Tail(s))

RECURSIVE InsertionSort(_, _)
InsertionSort(s, acc) ==
    IF s = <<>> THEN acc
    ELSE InsertionSort(Tail(s), InsertByTs(Head(s), acc))

\* the bucket left as appended
SortByTs_Unsorted(s) == s

SortByTs(s) == InsertionSort(s, <<>>)

\* a pruning that drops the events exactly WINDOW old as well
Prune_Strict(evs, t) == SelectSeq(evs, LAMBDA e : t - e[1] < WINDOW)

\* a flush-attempt that does not prune
Prune_KeepAll(evs, t) == evs

\* the pruning of line 125
Prune(evs, t) == SelectSeq(evs, LAMBDA e : t - e[1] <= WINDOW)

\* a cooldown gate that is still closed COOLDOWN after the last notification
CooldownActive_Inclusive(t, last) == t - last <= COOLDOWN

\* the cooldown gate of line 132
CooldownActive(t, last) == t - last < COOLDOWN

\* the window gate with its comparison turned round
WindowNotElapsed_Flipped(t, evs) == t - evs[1][1] > WINDOW

\* the window gate of line 138
WindowNotElapsed(t, evs) == t - evs[1][1] < WINDOW

\* lines 119-141: what a flush-attempt decides from the bucket it reads
Decide(evs0, t, last) ==
    IF evs0 = <<>> THEN "empty"
    ELSE IF Prune(evs0, t) = <<>> THEN "stale"
    ELSE IF CooldownActive(t, last) THEN "cooldown"
    ELSE IF WindowNotElapsed(t, Prune(evs0, t)) THEN "window"
    ELSE "flush"

\* an unpacking that takes a tuple of any length
UnpackRaises_Never(evs) == FALSE

\* line 98: the for statement unpacks every event into UNPACK_ARITY names and
\* raises ValueError on a tuple of any other length
UnpackRaises(evs) == \E i \in 1..Len(evs) : Len(evs[i]) # UNPACK_ARITY

RECURSIVE SumSol(_)
SumSol(evs) == IF evs = <<>> THEN 0 ELSE Head(evs)[3] + SumSol(Tail(evs))

\* format_event_summary (lines 86-111): the fields of the caption, and the image
format_event_summary(symbol, evs) ==
    [symbol |-> symbol,
     count  |-> Len(evs),
     total  |-> SumSol(evs),
     items  |-> evs,
     tweet  |-> IF evs[1][8] # None THEN <<evs[1][8], evs[1][9]>> ELSE <<>>,
     mint   |-> evs[1][10],
     image  |-> evs[1][6]]

\* line 144
SymbolOf(evs) == IF Len(evs[1]) > 10 THEN evs[1][11] ELSE "UNKNOWN"

\* a map rebuilt around the key just written
WithKey_Only(ks, m) == <<m>>

\* defaultdict: reading token_events[mint] at line 229 creates the key
WithKey(ks, m) == IF \E i \in 1..Len(ks) : ks[i] = m THEN ks ELSE Append(ks, m)

Buffered == LET RECURSIVE Count(_)
                Count(S) == IF S = {} THEN 0
                            ELSE LET m == CHOOSE x \in S : TRUE
                                 IN Len(token_events[m]) + Count(S \ {m})
            IN Count(Mints)

InFlight == Cardinality({t \in Handlers : pc[t] \in {"enrich", "append"}})

IdleReq == [to_mint |-> None, sol |-> 0]

(***************************************************************************)
(* Initial state: the module has been loaded and the sweeper thread has   *)
(* just been started (lines 31-33, 245-247): its first tick is due        *)
(***************************************************************************)
Init ==
    /\ now = StartTime
    /\ token_events = [m \in Mints |-> <<>>]
    /\ keys = <<>>
    /\ last_notify = [m \in Mints |-> 0]
    /\ lock = NoThread
    /\ sink = <<>>
    /\ pc = [t \in Threads |-> IF t = Sweeper THEN "sleep" ELSE "idle"]
    /\ req = [t \in Handlers |-> IdleReq]
    /\ ev = [t \in Handlers |-> <<>>]
    /\ resp = [t \in Handlers |-> "none"]
    /\ arg = [t \in Threads |-> None]
    /\ tnow = [t \in Threads |-> 0]
    /\ events = [t \in Threads |-> <<>>]
    /\ sent = [t \in Threads |-> FALSE]
    /\ mints = <<>>
    /\ wake = StartTime
    /\ failed = FALSE
    /\ flushed = [m \in Mints |-> 0]

(***************************************************************************)
(* Inputs                                                                  *)
(***************************************************************************)
Num(v) == [num |-> TRUE, v |-> v]

NotANumber == [num |-> FALSE, v |-> 0]

Swaps(froms, amounts, tokens) ==
    [kind : {"swap"}, from_mint : froms, to_mint : tokens, amount : amounts]

NoSwap(kinds) ==
    [kind : kinds, from_mint : {None}, to_mint : {None}, amount : {NotANumber}]

\* payloads of the concurrent model
Requests ==
    NoSwap({"nonswap"})
        \cup Swaps({SOL_MINT, OTHER_MINT}, {Num(4), Num(5)}, Mints)
        \cup Swaps({SOL_MINT}, {NotANumber}, {"A"})

\* payloads under the timely sweeper: those, and a request without a payload
TimelyRequests == Requests \cup NoSwap({"empty"})

\* payloads of the reference scenario: qualifying swaps of 5, 6 and 7 for token A
ScenarioRequests == Swaps({SOL_MINT}, {Num(5), Num(6), Num(7)}, {"A"})

\* what get_token_metadata returns, (symbol, image_url), in the concurrent model
Metas == {<<"SYM", "img">>}

\* what get_latest_verified_tweet returns, (text, link), in the concurrent model
Tweets == {<<None, None>>}

(***************************************************************************)
(* try_send_for_token leaves: return to the caller, or an exception        *)
(***************************************************************************)
\* lines 166-167 and 170: the sweeper takes the next token of its snapshot and
\* calls try_send_for_token, or sleeps when none is left
SweeperNext(ms) ==
    IF ms = <<>>
    THEN /\ pc' = [pc EXCEPT ![Sweeper] = "sleep"]
         /\ wake' = now + SWEEPER_INTERVAL
         /\ arg' = [arg EXCEPT ![Sweeper] = None]
         /\ mints' = <<>>
    ELSE /\ pc' = [pc EXCEPT ![Sweeper] = "try"]
         /\ arg' = [arg EXCEPT ![Sweeper] = Head(ms)]
         /\ mints' = Tail(ms)
         /\ UNCHANGED wake

\* try_send_for_token returns: the handler answers "ok" (line 237), the sweeper
\* goes on with its for loop (line 166)
Return(t) ==
    /\ tnow' = [tnow EXCEPT ![t] = 0]
    /\ events' = [events EXCEPT ![t] = <<>>]
    /\ sent' = [sent EXCEPT ![t] = FALSE]
    /\ IF t = Sweeper
       THEN /\ SweeperNext(mints)
            /\ UNCHANGED resp
       ELSE /\ pc' = [pc EXCEPT ![t] = "idle"]
            /\ resp' = [resp EXCEPT ![t] = "ok"]
            /\ arg' = [arg EXCEPT ![t] = None]
            /\ UNCHANGED <<mints, wake>>

\* a sweeper without the except clause of line 168: the exception ends the thread
PcAfterRaise_Dies(t) == IF t = Sweeper THEN "dead" ELSE "idle"

\* where an exception raised inside try_send_for_token takes the thread: out of
\* solana_webhook (the request fails), or to the except clause of line 168,
\* which is outside the for loop, and on to the sleep of line 170
PcAfterRaise(t) == IF t = Sweeper THEN "sleep" ELSE "idle"

\* an exception leaves try_send_for_token
Raise(t) ==
    /\ pc' = [pc EXCEPT ![t] = PcAfterRaise(t)]
    /\ arg' = [arg EXCEPT ![t] = None]
    /\ tnow' = [tnow EXCEPT ![t] = 0]
    /\ events' = [events EXCEPT ![t] = <<>>]
    /\ sent' = [sent EXCEPT ![t] = FALSE]
    /\ IF t = Sweeper
       THEN /\ mints' = <<>>
            /\ wake' = now + SWEEPER_INTERVAL
            /\ failed' = TRUE
            /\ UNCHANGED resp
       ELSE /\ resp' = [resp EXCEPT ![t] = "error"]
            /\ UNCHANGED <<mints, wake, failed>>

\* the lock once the with block of line 118 is left, by return or by exception
LockAfterWith(t) == NoThread

\* a with block entered without waiting for the lock
LockAvailable_Always(t) == TRUE

\* `with lock` (lines 118, 164, 228): the thread enters once the lock is free
LockAvailable(t) == lock = NoThread

(***************************************************************************)
(* solana_webhook (lines 173-237)                                          *)
(***************************************************************************)
\* lines 179-206: the payload is parsed and filtered
Receive(t, r, cap) ==
    /\ pc[t] = "idle"
    /\ IF r.kind = "empty"
       THEN /\ resp' = [resp EXCEPT ![t] = "bad request"]
            /\ UNCHANGED <<pc, req>>
       ELSE IF r.kind = "nonswap" \/ Rejected(r.from_mint, ToFloat(r.amount))
       THEN /\ resp' = [resp EXCEPT ![t] = "ignored"]
            /\ UNCHANGED <<pc, req>>
       ELSE /\ Buffered + InFlight < cap
            /\ pc' = [pc EXCEPT ![t] = "enrich"]
            /\ req' = [req EXCEPT ![t] = [to_mint |-> r.to_mint,
                                          sol |-> ToFloat(r.amount)]]
            /\ resp' = [resp EXCEPT ![t] = "none"]
    /\ UNCHANGED <<now, store, lock, sink, ev, locals, mints, wake, failed, flushed>>

\* lines 209-226: both gateway calls return and the event is stamped
Enrich(t, metas, tweets) ==
    /\ pc[t] = "enrich"
    /\ \E meta \in metas, tweet \in tweets :
           ev' = [ev EXCEPT ![t] =
                     MakeEvent(now, req[t].sol, req[t].to_mint, meta, tweet)]
    /\ pc' = [pc EXCEPT ![t] = "append"]
    /\ UNCHANGED <<now, store, lock, sink, req, resp, locals, mints, wake, failed,
                   flushed>>

\* lines 228-229: the lock is taken and the event appended
AppendEvent(t) ==
    /\ pc[t] = "append"
    /\ LockAvailable(t)
    /\ lock' = t
    /\ token_events' = [token_events EXCEPT ![req[t].to_mint] = Append(@, ev[t])]
    /\ keys' = WithKey(keys, req[t].to_mint)
    /\ pc' = [pc EXCEPT ![t] = "sort"]
    /\ UNCHANGED <<now, last_notify, sink, req, ev, resp, locals, mints, wake,
                   failed, flushed>>

\* lines 231-235: the bucket is sorted, the lock released, and
\* try_send_for_token(to_mint) called
SortEvents(t) ==
    /\ pc[t] = "sort"
    /\ lock = t
    /\ token_events' = [token_events EXCEPT ![req[t].to_mint] = SortByTs(@)]
    /\ lock' = NoThread
    /\ pc' = [pc EXCEPT ![t] = "try"]
    /\ arg' = [arg EXCEPT ![t] = req[t].to_mint]
    /\ req' = [req EXCEPT ![t] = IdleReq]
    /\ ev' = [ev EXCEPT ![t] = <<>>]
    /\ UNCHANGED <<now, keys, last_notify, sink, resp, tnow, events, sent,
                   mints, wake, failed, flushed>>

(***************************************************************************)
(* try_send_for_token (lines 114-154)                                      *)
(***************************************************************************)
\* lines 118-141: under the lock, read the bucket, prune it, pass the gates
TryEnter(t) ==
    /\ pc[t] = "try"
    /\ LockAvailable(t)
    /\ LET m    == arg[t]
           evs0 == token_events[m]
           d    == Decide(evs0, now, last_notify[m])
       IN /\ token_events' = IF d = "empty" THEN token_events
                             ELSE [token_events EXCEPT ![m] = Prune(evs0, now)]
          /\ IF d = "flush"
             THEN /\ lock' = t
                  /\ pc' = [pc EXCEPT ![t] = "format"]
                  /\ tnow' = [tnow EXCEPT ![t] = now]
                  /\ events' = [events EXCEPT ![t] = Prune(evs0, now)]
                  /\ flushed' = [flushed EXCEPT ![m] = now]
                  /\ UNCHANGED <<arg, sent, resp, mints, wake>>
             ELSE /\ lock' = LockAfterWith(t)
                  /\ Return(t)
                  /\ UNCHANGED flushed
    /\ UNCHANGED <<now, keys, last_notify, sink, req, ev, failed>>

\* lines 143-154, still under the lock: the summary is built, handed to
\* Telegram (photo first when there is an image, text when that fails), then
\* last_notify is set and the bucket reset
Summarize(t) ==
    /\ pc[t] \in {"format", "photo", "text", "commit", "clear"}
    /\ lock = t
    /\ LET m       == arg[t]
           caption == format_event_summary(SymbolOf(events[t]), events[t])
       IN CASE pc[t] = "format" /\ UnpackRaises(events[t]) ->
                 \* ValueError leaves the with block and the function
                 /\ lock' = LockAfterWith(t)
                 /\ Raise(t)
                 /\ UNCHANGED <<store, sink>>
            [] pc[t] = "format" /\ ~UnpackRaises(events[t]) ->
                 /\ pc' = [pc EXCEPT ![t] =
                              IF caption.image # None THEN "photo" ELSE "text"]
                 /\ sent' = [sent EXCEPT ![t] = FALSE]
                 /\ UNCHANGED <<store, sink, lock, resp, arg, tnow, events,
                                mints, wake, failed>>
            [] pc[t] = "photo" ->
                 /\ \E ok \in BOOLEAN :
                        /\ sink' = Append(sink, [kind |-> "photo", mint |-> m,
                                                 caption |-> caption, ok |-> ok])
                        /\ sent' = [sent EXCEPT ![t] = ok]
                        /\ pc' = [pc EXCEPT ![t] = IF ok THEN "commit" ELSE "text"]
                 /\ UNCHANGED <<store, lock, resp, arg, tnow, events,
                                mints, wake, failed>>
            [] pc[t] = "text" ->
                 /\ \E ok \in BOOLEAN :
                        sink' = Append(sink, [kind |-> "text", mint |-> m,
                                              caption |-> caption, ok |-> ok])
                 /\ pc' = [pc EXCEPT ![t] = "commit"]
                 /\ UNCHANGED <<store, lock, resp, locals, mints, wake, failed>>
            [] pc[t] = "commit" ->
                 /\ last_notify' = [last_notify EXCEPT ![m] = tnow[t]]
                 /\ pc' = [pc EXCEPT ![t] = "clear"]
                 /\ UNCHANGED <<token_events, keys, sink, lock, resp, locals,
                                mints, wake, failed>>
            [] pc[t] = "clear" ->
                 /\ token_events' = [token_events EXCEPT ![m] = <<>>]
                 /\ lock' = LockAfterWith(t)
                 /\ Return(t)
                 /\ UNCHANGED <<keys, last_notify, sink, failed>>
    /\ UNCHANGED <<now, req, ev, flushed>>

(***************************************************************************)
(* sweeper_loop (lines 157-170)                                            *)
(***************************************************************************)
\* line 170 returns once the sleep is over, lines 164-165 copy the keys under
\* the lock, and the for loop starts
Snapshot ==
    /\ pc[Sweeper] = "sleep"
    /\ now >= wake
    /\ LockAvailable(Sweeper)
    /\ SweeperNext(keys)
    /\ UNCHANGED <<now, store, lock, sink, req, ev, resp, tnow, events, sent,
                   failed, flushed>>

(***************************************************************************)
(* The clock                                                               *)
(***************************************************************************)
\* time passes to a later instant of `instants`; with `timely`, only while the
\* sweeper sleeps and never past the end of its sleep, so that the sweeper
\* ticks exactly every SWEEPER_INTERVAL, and only while no handler is between
\* stamping its event and returning (only the gateway calls take time)
Tick(instants, timely) ==
    /\ \E i \in instants :
           /\ StartTime + i > now
           /\ timely => /\ pc[Sweeper] = "sleep"
                        /\ StartTime + i <= wake
                        /\ \A t \in Handlers : pc[t] \in {"idle", "enrich"}
           /\ now' = StartTime + i
    /\ UNCHANGED <<store, lock, sink, pc, req, ev, resp, locals, mints, wake,
                   failed, flushed>>

(***************************************************************************)
(* Specifications                                                          *)
(***************************************************************************)
ThreadStep(t) ==
    \/ TryEnter(t)
    \/ Summarize(t)

HandlerStep(t, requests, cap) ==
    \/ \E r \in requests : Receive(t, r, cap)
    \/ Enrich(t, Metas, Tweets)
    \/ AppendEvent(t)
    \/ SortEvents(t)
    \/ ThreadStep(t)

SweeperStep ==
    \/ Snapshot
    \/ ThreadStep(Sweeper)

\* handlers and sweeper interleaved, the clock free
Next ==
    \/ \E t \in Handlers : HandlerStep(t, Requests, MaxEvents)
    \/ SweeperStep
    \/ Tick(GridInstants, FALSE)

Spec == Init /\ [][Next]_vars

\* the same threads under a sweeper that ticks exactly every SWEEPER_INTERVAL;
\* every thread that can take a step eventually takes one, and time passes
NextTimely ==
    \/ \E t \in Handlers : HandlerStep(t, TimelyRequests, MaxEvents)
    \/ SweeperStep
    \/ Tick(TimelyInstants, TRUE)

Working(t) ==
    Enrich(t, Metas, Tweets) \/ AppendEvent(t) \/ SortEvents(t) \/ ThreadStep(t)

TimelySpec ==
    /\ Init
    /\ [][NextTimely]_vars
    /\ \A t \in Handlers : WF_vars(Working(t))
    /\ WF_vars(SweeperStep)
    /\ WF_vars(Tick(TimelyInstants, TRUE))

\* the reference scenario: one request at a time for token A, the clock on the
\* scenario's instants
NextScenario ==
    \/ HandlerStep("h1", ScenarioRequests, MaxScenarioEvents)
    \/ SweeperStep
    \/ Tick(ScenarioInstants, FALSE)

ScenarioSpec == Init /\ [][NextScenario]_vars

\* the handler and the sweeper with every outcome of the two gateway calls
EnrichedMetas == {<<"SYM", "img">>, <<"UNKNOWN", None>>}

EnrichedTweets == {<<None, None>>, <<"txt", "lnk">>}

NextEnriched ==
    \/ \E r \in ScenarioRequests : Receive("h1", r, MaxEvents)
    \/ Enrich("h1", EnrichedMetas, EnrichedTweets)
    \/ AppendEvent("h1")
    \/ SortEvents("h1")
    \/ ThreadStep("h1")
    \/ SweeperStep
    \/ Tick(GridInstants, FALSE)

EnrichedSpec == Init /\ [][NextEnriched]_vars

\* the handler and the sweeper in a process started while time.time() is still
\* below COOLDOWN (a system clock that was never set counts from 0): the clock
\* reads COOLDOWN - 2 * WINDOW at the start, then COOLDOWN - WINDOW, then COOLDOWN
EpochStart == COOLDOWN - 2 * WINDOW

EpochInstants == {EpochStart + WINDOW - StartTime, EpochStart + 2 * WINDOW - StartTime}

EpochInit ==
    /\ now = EpochStart
    /\ token_events = [m \in Mints |-> <<>>]
    /\ keys = <<>>
    /\ last_notify = [m \in Mints |-> 0]
    /\ lock = NoThread
    /\ sink = <<>>
    /\ pc = [t \in Threads |-> IF t = Sweeper THEN "sleep" ELSE "idle"]
    /\ req = [t \in Handlers |-> IdleReq]
    /\ ev = [t \in Handlers |-> <<>>]
    /\ resp = [t \in Handlers |-> "none"]
    /\ arg = [t \in Threads |-> None]
    /\ tnow = [t \in Threads |-> 0]
    /\ events = [t \in Threads |-> <<>>]
    /\ sent = [t \in Threads |-> FALSE]
    /\ mints = <<>>
    /\ wake = EpochStart
    /\ failed = FALSE
    /\ flushed = [m \in Mints |-> 0]

NextEpoch ==
    \/ HandlerStep("h1", ScenarioRequests, MaxEvents)
    \/ SweeperStep
    \/ Tick(EpochInstants, FALSE)

EpochSpec == EpochInit /\ [][NextEpoch]_vars

(***************************************************************************)
(* Vocabulary of the properties                                            *)
(***************************************************************************)
\* a thread between line 143 and line 154: its flush-attempt passed every gate
FlushPcs == {"format", "photo", "text", "commit", "clear"}

InGateway(t) == pc[t] = "enrich"

InSink(t) == pc[t] \in {"photo", "text"}

IsSorted(evs) == \A i, j \in 1..Len(evs) : i < j => evs[i][1] <= evs[j][1]

Holds(evs, e) == \E i \in 1..Len(evs) : evs[i] = e

\* the thread's flush-attempt raises in this step
Raises(t) ==
    pc[t] = "format" /\ UnpackRaises(events[t]) /\ pc'[t] # "format"

\* the thread's flush-attempt passes lines 118-141 in this step
Attempts(t, m) ==
    /\ pc[t] = "try"
    /\ arg[t] = m
    /\ lock = NoThread
    /\ <<pc[t], arg[t], mints>>' # <<pc[t], arg[t], mints>>

\* the thread's flush-attempt ends in a no-op in this step
NoOp(t, m) ==
    /\ pc'[t] \notin FlushPcs
    /\ token_events'[m] = token_events[m]
    /\ last_notify' = last_notify
    /\ sink' = sink

(***************************************************************************)
(* C1  Eventual flush.  Under a sweeper that ticks exactly every           *)
(* SWEEPER_INTERVAL, an event buffered for a token whose cooldown is not   *)
(* active is handed to the Notification Sink in a summary before it is     *)
(* discarded from the bucket: no step removes from a bucket an event that  *)
(* no message of the sink contains.                                        *)
(***************************************************************************)
C1_EventualFlush ==
    [][\A m \in Mints : \A i \in 1..Len(token_events[m]) :
          LET e == token_events[m][i]
          IN (/\ ~CooldownActive(now, last_notify[m])
              /\ ~Holds(token_events'[m], e))
             => \E k \in 1..Len(sink') : Holds(sink'[k].caption.items, e)]_vars

(***************************************************************************)
(* C2  Reference scenario, times counted from the start of the process.   *)
(* With events of 5, 6 and 7 buffered for token A at 0, 10 and 30: a      *)
(* flush-attempt at 31 is a no-op; a flush-attempt at 61 sends one summary *)
(* of all three events, total 18, clears the bucket and sets last_notify   *)
(* to 61; with one event buffered at 65 a flush-attempt at 66 is a no-op   *)
(* and a flush-attempt at 365 flushes that event.                          *)
(***************************************************************************)
At(k) == StartTime + k

Bought(k, sol) ==
    MakeEvent(At(k), sol, "A", <<"SYM", "img">>, <<None, None>>)

Bucket3 == <<Bought(0, 5), Bought(10, 6), Bought(30, 7)>>

Bucket1 == {<<Bought(65, sol)>> : sol \in {5, 6, 7}}

C2_ReferenceScenario ==
    [][\A t \in Threads :
          /\ (Attempts(t, "A") /\ now = At(31) /\ token_events["A"] = Bucket3)
                => NoOp(t, "A")
          /\ (Attempts(t, "A") /\ now = At(61) /\ token_events["A"] = Bucket3)
                => (/\ pc'[t] = "format"
                    /\ events'[t] = Bucket3
                    /\ SumSol(events'[t]) = 18)
          /\ (/\ pc[t] \in FlushPcs /\ pc'[t] \notin FlushPcs
              /\ tnow[t] = At(61) /\ events[t] = Bucket3)
                => (/\ token_events'["A"] = <<>>
                    /\ last_notify'["A"] = At(61)
                    /\ \E k \in 1..Len(sink') :
                           /\ sink'[k].caption.count = 3
                           /\ sink'[k].caption.total = 18)
          /\ (/\ Attempts(t, "A") /\ now = At(66)
              /\ last_notify["A"] = At(61) /\ token_events["A"] \in Bucket1)
                => NoOp(t, "A")
          /\ (/\ Attempts(t, "A") /\ now = At(365)
              /\ last_notify["A"] = At(61) /\ token_events["A"] \in Bucket1)
                => (/\ pc'[t] = "format"
                    /\ events'[t] = token_events["A"])]_vars

(***************************************************************************)
(* C3  Window gate.  A flush-attempt that passes the gates (and so would   *)
(* send and clear) read a `now` at least WINDOW after the timestamp of the *)
(* earliest event buffered for its token.                                  *)
(***************************************************************************)
C3_WindowGate ==
    \A t \in Threads :
        pc[t] \in FlushPcs =>
            /\ token_events[arg[t]] # <<>>
            /\ \A i \in 1..Len(token_events[arg[t]]) :
                   (\A j \in 1..Len(token_events[arg[t]]) :
                        token_events[arg[t]][i][1] <= token_events[arg[t]][j][1])
                   => tnow[t] - token_events[arg[t]][i][1] >= WINDOW

\* a flush-attempt has passed the gates on a bucket of two events of different age
C3_Witness ==
    \E t \in Threads :
        /\ pc[t] = "format"
        /\ Len(token_events[arg[t]]) = 2
        /\ token_events[arg[t]][1][1] < token_events[arg[t]][2][1]

(***************************************************************************)
(* C4  Cooldown.  Two consecutive flushes of a token, whichever thread     *)
(* makes them, are at least COOLDOWN apart: a flush-attempt passes the     *)
(* gates only when COOLDOWN has passed since the previous one passed them. *)
(***************************************************************************)
C4_Cooldown ==
    [][\A t \in Threads : \A m \in Mints :
          (pc[t] = "try" /\ arg[t] = m /\ pc'[t] = "format" /\ flushed[m] # 0)
          => now - flushed[m] >= COOLDOWN]_vars

(***************************************************************************)
(* C5  Flush commit.  When a flush-attempt that reached the send step      *)
(* leaves try_send_for_token, the bucket of its token is empty and         *)
(* last_notify is the `now` it read; and a bucket whose last_notify is set *)
(* but which is not yet cleared exists only while the flushing thread      *)
(* holds the lock.                                                         *)
(***************************************************************************)
C5_FlushCommit ==
    [][\A t \in Threads :
          /\ (pc[t] \in FlushPcs /\ pc'[t] \notin FlushPcs)
                => (/\ token_events'[arg[t]] = <<>>
                    /\ last_notify'[arg[t]] = tnow[t])
          /\ pc[t] = "clear" => lock = t]_vars

(***************************************************************************)
(* C6  Ingest filter.  A swap whose amount is below the threshold or whose *)
(* fromMint is not the settlement asset is answered "ignored", changes     *)
(* neither the buckets, the keys, last_notify nor the sink, and starts no  *)
(* flush-attempt.  (A step that changes neither the handler's place nor    *)
(* its answer changes nothing at all.)                                     *)
(***************************************************************************)
BelowOrForeign ==
    {r \in Requests : /\ r.kind = "swap"
                      /\ (ToFloat(r.amount) < MIN_AMOUNT \/ r.from_mint # SOL_MINT)}

C6_IngestFilter ==
    [][\A t \in Handlers :
          (pc[t] = "idle" /\ <<pc[t], resp[t]>>' # <<pc[t], resp[t]>>) =>
              \A r \in BelowOrForeign :
                  Receive(t, r, MaxEvents)
                  => (/\ resp'[t] = "ignored"
                      /\ pc'[t] = "idle"
                      /\ UNCHANGED <<token_events, keys, last_notify, sink, lock,
                                     flushed>>)]_vars

\* a request was ignored while events were buffered
C6_Witness ==
    \E t \in Handlers : resp[t] = "ignored" /\ Buffered > 0

C8_TickIsolation ==
    [][(Raises(Sweeper) /\ mints # <<>>)
       => (pc'[Sweeper] = "try" /\ arg'[Sweeper] = Head(mints))]_vars

(***************************************************************************)
(* C9  Sweeper survival.  An exception raised by a flush-attempt of the    *)
(* sweeper leaves the sweeper asleep for SWEEPER_INTERVAL with the lock    *)
(* free; the sweeper is never anywhere but asleep or in a tick, and once   *)
(* the sleep is over and the lock free its next tick can start.            *)
(***************************************************************************)
C9_SweeperSurvives ==
    [][/\ Raises(Sweeper) =>
             (/\ pc'[Sweeper] = "sleep"
              /\ wake' = now + SWEEPER_INTERVAL
              /\ lock' = NoThread)
       /\ pc[Sweeper] \in {"sleep", "try"} \cup FlushPcs
       /\ (pc[Sweeper] = "sleep" /\ now >= wake /\ lock = NoThread)
             => ENABLED Snapshot]_vars

\* after a tick that failed, the sweeper is in a flush-attempt of a later tick
C9_Witness ==
    failed /\ pc[Sweeper] = "try" /\ lock # Sweeper

(***************************************************************************)
(* C10  Ordering.  Whenever the lock is free every bucket is in ascending  *)
(* order of timestamp, and so is the list a flush-attempt hands to the     *)
(* summarizer, although handlers stamp their events before they take the   *)
(* lock and may append them out of order.                                  *)
(***************************************************************************)
C10_Ordering ==
    /\ lock = NoThread => \A m \in Mints : IsSorted(token_events[m])
    /\ \A t \in Threads : pc[t] \in FlushPcs => IsSorted(events[t])

\* an event was appended behind a later one: the bucket is out of order until
\* the handler, which holds the lock, sorts it
C10_Witness ==
    \E m \in Mints : ~IsSorted(token_events[m])

(***************************************************************************)
(* C11  Staleness.  Every event of the list a flush-attempt hands to the   *)
(* summarizer, and so into any summary it sends, is at most WINDOW old at   *)
(* the `now` the attempt read.                                             *)
(***************************************************************************)
C11_Staleness ==
    \A t \in Threads :
        pc[t] \in FlushPcs =>
            \A i \in 1..Len(events[t]) : tnow[t] - events[t][i][1] <= WINDOW

\* a flush-attempt hands on two events, the older one exactly WINDOW old
C11_Witness ==
    \E t \in Threads :
        /\ pc[t] = "format"
        /\ Len(events[t]) = 2
        /\ tnow[t] - events[t][1][1] = WINDOW
        /\ tnow[t] - events[t][2][1] < WINDOW

(***************************************************************************)
(* C12  Best-effort ingest.  A request that passed the filter is answered  *)
(* "ok": when the handler leaves the flush-attempt of line 235, however it *)
(* ended, its answer is "ok".                                              *)
(***************************************************************************)
C12_BestEffortIngest ==
    [][\A t \in Handlers :
          (pc[t] \in {"try"} \cup FlushPcs /\ pc'[t] = "idle")
          => resp'[t] = "ok"]_vars

(***************************************************************************)
(* C13  Sink fallback.  When a flush leaves try_send_for_token, of the     *)
(* messages it handed to the sink: at most one is a photo, and only if the *)
(* first event has an image; there is a text if and only if the first      *)
(* event has no image or the photo failed; at most one delivery succeeded. *)
(***************************************************************************)
SentBy(t, kind) ==
    {k \in 1..Len(sink') : sink'[k].kind = kind /\ sink'[k].caption.items = events[t]}

C13_SinkFallback ==
    [][\A t \in Threads :
          (pc[t] \in FlushPcs /\ pc'[t] \notin FlushPcs) =>
              LET image == events[t][1][6]
              IN /\ Cardinality(SentBy(t, "photo")) <= 1
                 /\ SentBy(t, "photo") # {} => image # None
                 /\ SentBy(t, "text") # {}
                       <=> (image = None \/ \E k \in SentBy(t, "photo") : ~sink'[k].ok)
                 /\ Cardinality({k \in SentBy(t, "photo") \cup SentBy(t, "text") :
                                    sink'[k].ok}) <= 1]_vars

(***************************************************************************)
(* C15  Social block.  When a flush whose most recent event carries a      *)
(* social snapshot leaves try_send_for_token, a summary of its events with *)
(* that snapshot (text and link) as social block has been handed to the    *)
(* sink.                                                                   *)
(***************************************************************************)
MostRecent(evs) == evs[Len(evs)]

C15_SocialBlock ==
    [][\A t \in Threads :
          (/\ pc[t] \in FlushPcs /\ pc'[t] \notin FlushPcs
           /\ MostRecent(events[t])[8] # None)
          => \E k \in 1..Len(sink') :
                 /\ sink'[k].caption.items = events[t]
                 /\ sink'[k].caption.tweet =
                        <<MostRecent(events[t])[8], MostRecent(events[t])[9]>>]_vars

(***************************************************************************)
(* C14  Mutual exclusion.  A thread is inside a with-lock block exactly    *)
(* when it holds the lock, so at most one thread is; and every step that   *)
(* changes the map, a bucket or last_notify is taken by the thread that    *)
(* holds the lock, or takes the lock, which was free.                      *)
(***************************************************************************)
\* the thread is inside a with block, between two of its steps
InCritical(t) == pc[t] \in {"sort"} \cup FlushPcs

\* the step is one of thread t
Steps(t) ==
    \/ pc'[t] # pc[t]
    \/ arg'[t] # arg[t]
    \/ t = Sweeper /\ mints' # mints
    \/ t \in Handlers /\ resp'[t] # resp[t]

FirstFlushByWindowOnly(t, m) ==
    (/\ Attempts(t, m)
     /\ flushed[m] = 0
     /\ Prune(token_events[m], now) # <<>>)
    => (pc'[t] = "format" <=> now - Prune(token_events[m], now)[1][1] >= WINDOW)

C17_NonFlushing ==
    [][\A t \in Threads : \A m \in Mints :
          (/\ Attempts(t, m)
           /\ token_events[m] # <<>>
           /\ pc'[t] \notin FlushPcs)
          => /\ last_notify' = last_notify
             /\ token_events'[m] =
                    SelectSeq(token_events[m], LAMBDA e : ~(now - e[1] > WINDOW))]_vars

\* the sweeper has ended a tick during cooldown and an event exactly WINDOW old
\* is still buffered
C17_Witness ==
    /\ pc[Sweeper] = "sleep"
    /\ wake = now + SWEEPER_INTERVAL
    /\ ~failed
    /\ \E m \in Mints :
           /\ CooldownActive(now, last_notify[m])
           /\ token_events[m] # <<>>
           /\ now - token_events[m][1][1] = WINDOW

(***************************************************************************)
(* C18  No retry, no double count.  No event is in two messages of         *)
(* different flushes; and when a flush leaves try_send_for_token, the      *)
(* events it summarized, and only they, have left the bucket, so that no   *)
(* later flush-attempt hands them on again.                                *)
(***************************************************************************)
C18_NoRetry ==
    [][/\ \A j, k \in 1..Len(sink') :
              (\E i \in 1..Len(sink'[j].caption.items) :
                   Holds(sink'[k].caption.items, sink'[j].caption.items[i]))
              => sink'[j].caption.items = sink'[k].caption.items
       /\ \A t \in Threads :
              (pc[t] \in FlushPcs /\ pc'[t] \notin FlushPcs) =>
                  /\ \A i \in 1..Len(events[t]) :
                         ~Holds(token_events'[arg[t]], events[t][i])
                  /\ \A i \in 1..Len(token_events[arg[t]]) :
                         Holds(events[t], token_events[arg[t]][i])
                         \/ Holds(token_events'[arg[t]], token_events[arg[t]][i])]_vars

Target(t) ==
    IF t \in Handlers /\ pc[t] \in {"append", "sort"} THEN req[t].to_mint ELSE arg[t]

C20_PerTokenFrame ==
    [][/\ \A t \in Threads :
              Steps(t) => \A b \in Mints \ {Target(t)} :
                              /\ token_events'[b] = token_events[b]
                              /\ last_notify'[b] = last_notify[b]
       /\ Len(keys') >= Len(keys)
       /\ SubSeq(keys', 1, Len(keys)) = keys]_vars

\* both tokens are known, one bucket was emptied and the other still has events
C20_Witness ==
    \E a, b \in Mints :
        /\ a # b
        /\ \E i, j \in 1..Len(keys) : keys[i] = a /\ keys[j] = b
        /\ token_events[a] = <<>>
        /\ token_events[b] # <<>>

====
